---- MODULE Spec2Model ----
(***************************************************************************)
(* Model of src/tools/libinput-debug-events.c: the gesture-to-command      *)
(* dispatcher.  main() parses the --cmd entries into the list `commands`,  *)
(* mainloop() waits in poll() and drains the libinput queue, touch_event() *)
(* records the zone of a contact-down in touch_buffer and                   *)
(* event_to_command() runs, with system(), the bindings whose pattern is   *)
(* the C string held in touch_buffer[0..nb].                               *)
(*                                                                         *)
(* C strings are sequences of one-character strings; NUL is the            *)
(* terminator.  Coordinates are integers of the 100 x 100 square.          *)
(*                                                                         *)
(* struct Command is declared in libinput-debug_events.h; main() allocates *)
(* each node with malloc(sizeof(commands)), the size of a pointer.  The    *)
(* model takes the node to hold its three fields (the allocator's usable   *)
(* size covers them, as with glibc).                                       *)
(***************************************************************************)
EXTENDS Integers, Sequences, FiniteSets, TLC

VARIABLES
    argv,          \* the --cmd arguments, in command-line order
    optind,        \* index in argv of the next argument getopt_long returns
    commands,      \* the list `commands`, head first
    touch_buffer,  \* static char touch_buffer[5], zero-initialised
    stop,          \* volatile sig_atomic_t stop
    pc,            \* position of the main thread
    in_loop,       \* FALSE during the startup drain (line 111), TRUE in the do-loop
    pending,       \* events readable on the libinput fd and not yet fetched
    ev,            \* the event libinput_get_event returned last
    cursor,        \* event_to_command's cursor: index in commands of the running binding
    ran,           \* bindings whose action system() was given, for the event ev
    printed,       \* bindings whose "event -> action" record was printed, for ev
    poll_rc,       \* what poll() returned last
    newlines,      \* number of "\n" mainloop has printed
    status,        \* exit status of the process
    repeated       \* history: ev is identical to the event fetched before it,
                   \* for which a command was run

vars == <<argv, optind, commands, touch_buffer, stop, pc, in_loop, pending, ev,
          cursor, ran, printed, poll_rc, newlines, status, repeated>>

----------------------------------------------------------------------------
(* Bounds of the model *)

MaxCmds == 2       \* --cmd options on the command line
MaxPending == 1    \* events waiting on the fd at one time
MaxArgLen == 7     \* characters of one --cmd argument under ParseSpec

(* Program constants *)

screen_width == 100
screen_height == 100
BufferSize == 5
MinLetters == 2
MaxLetters == 5
EXIT_SUCCESS == 0
EXIT_FAILURE == 1
EXIT_INVALID_USAGE == 2

NUL == "NUL"
Dir == {"g", "h", "b", "d"}
Chars == Dir \cup {"-", "a"}

----------------------------------------------------------------------------
(* coord_to_zone *)

(* Mutant of coord_to_zone: the main diagonal compared with <= *)
coord_to_zone_le(x, y) ==
    IF y < 100 - x
    THEN (IF y <= x THEN "h" ELSE "g")
    ELSE (IF y <= x THEN "d" ELSE "b")

coord_to_zone(x, y) ==
    IF y < 100 - x
    THEN (IF y < x THEN "h" ELSE "g")
    ELSE (IF y < x THEN "d" ELSE "b")

----------------------------------------------------------------------------
(* main: the OPT_CMD case *)

IsDirLetter(c) == c = "g" \/ c = "h" \/ c = "b" \/ c = "d"

(* Mutants of IsSplitter: the separator accepted after six letters, and *)
(* after one letter                                                     *)
IsSplitterUpToSix(c, i) == c = "-" /\ i >= MinLetters /\ i <= MaxLetters + 1

IsSplitterFromOne(c, i) == c = "-" /\ i >= MinLetters - 1 /\ i <= MaxLetters

IsSplitter(c, i) == c = "-" /\ i >= MinLetters /\ i <= MaxLetters

(* The for loop of lines 187-197: i is the C index, optarg[i] is optarg[i+1] *)
(* here.  Yields splitter_found and the value of i after the loop.           *)
RECURSIVE ScanCmd(_, _)
ScanCmd(optarg, i) ==
    IF i >= Len(optarg)
    THEN [splitter_found |-> FALSE, i |-> i]
    ELSE IF IsDirLetter(optarg[i + 1])
         THEN ScanCmd(optarg, i + 1)
         ELSE [splitter_found |-> IsSplitter(optarg[i + 1], i), i |-> i + 1]

(* candidate->event: strncpy(candidate->event, optarg, i) at the splitter *)
CmdEvent(optarg) == SubSeq(optarg, 1, ScanCmd(optarg, 0).i - 1)

(* Mutant of CmdAction: the copy starts at the splitter (optarg + i - 1) *)
CmdActionFromSplitter(optarg) == SubSeq(optarg, ScanCmd(optarg, 0).i, Len(optarg))

(* candidate->action: strcpy of optarg + i *)
CmdAction(optarg) == SubSeq(optarg, ScanCmd(optarg, 0).i + 1, Len(optarg))

(* Mutant of PushCommand: the candidate linked at the tail *)
PushCommandAtTail(cmds, candidate) == cmds \o <<candidate>>

(* candidate->next = commands; commands = candidate *)
PushCommand(cmds, candidate) == <<candidate>> \o cmds

----------------------------------------------------------------------------
(* touch_event and event_to_command *)

InRange(nb) == ~(nb < 0 \/ nb >= BufferSize)

(* Mutant of RecordZone: a contact-down on slot 0 clears the other entries *)
RecordZoneRestart(buf, nb, zone) ==
    IF nb = 0
    THEN [k \in DOMAIN buf |-> IF k = 0 THEN zone ELSE NUL]
    ELSE [buf EXCEPT ![nb] = zone]

(* Mutant of RecordZone: recording a slot clears the entries above it *)
RecordZoneTruncates(buf, nb, zone) ==
    [k \in DOMAIN buf |-> IF k = nb THEN zone ELSE IF k > nb THEN NUL ELSE buf[k]]

RecordZone(buf, nb, zone) == [buf EXCEPT ![nb] = zone]

(* Mutant of MatchAttempted: only the second contact is matched *)
MatchAttemptedOnce(nb) == nb = 1

MatchAttempted(nb) == nb > 0

(* Mutant of touch_event: an out-of-range slot is clamped to the nearest *)
(* entry instead of being dropped                                       *)
touch_event_clamped(buf, nb, x, y) ==
    LET s == IF nb < 0 THEN 0 ELSE IF nb >= BufferSize THEN BufferSize - 1 ELSE nb
    IN [buf EXCEPT ![s] = coord_to_zone(x, y)]

(* touch_buffer after touch_event for a contact-down on slot nb at (x, y) *)
touch_event(buf, nb, x, y) ==
    IF InRange(nb)
    THEN RecordZone(buf, nb, coord_to_zone(x, y))
    ELSE buf

(* Mutant of CopyUpTo: entries never recorded are skipped, the copy does *)
(* not stop at them                                                     *)
RECURSIVE CopyUpToSkipsNul(_, _, _)
CopyUpToSkipsNul(buf, k, nb) ==
    IF k > nb
    THEN <<>>
    ELSE (IF buf[k] = NUL THEN <<>> ELSE <<buf[k]>>)
             \o CopyUpToSkipsNul(buf, k + 1, nb)

(* strncpy(event, touch_buffer, nb+1); event[nb+1] = '\0': the characters *)
(* of touch_buffer[0..nb] before the first NUL.                           *)
RECURSIVE CopyUpTo(_, _, _)
CopyUpTo(buf, k, nb) ==
    IF k > nb \/ buf[k] = NUL
    THEN <<>>
    ELSE <<buf[k]>> \o CopyUpTo(buf, k + 1, nb)

EventString(buf, nb) == CopyUpTo(buf, 0, nb)

StrEq(a, b) == a = b

(* The for loop of event_to_command from position `from`: the index of the *)
(* next binding whose event strcmp()s equal, 0 when the cursor reaches NULL *)
RECURSIVE NextMatch(_, _, _)
NextMatch(cmds, event, from) ==
    IF from > Len(cmds)
    THEN 0
    ELSE IF StrEq(event, cmds[from].event)
         THEN from
         ELSE NextMatch(cmds, event, from + 1)

(* The cursor after system() and printf(): on to cursor->next *)
AfterSystem(cmds, event, cur) == NextMatch(cmds, event, cur + 1)

----------------------------------------------------------------------------
(* Inputs *)

OptArgs ==
    { <<"g", "d", "-", "A">>,
      <<"g", "d", "-", "B">>,
      <<"g", "d", "g", "-", "C">>,
      <<"g", "-", "D">> }

Argvs == UNION { [1..n -> OptArgs] : n \in 0..MaxCmds }

(* Positions of the contacts: one in zone 'g', one in zone 'd' *)
Points == { <<10, 50>>, <<90, 50>> }

(* Slot indexes the device reports: the buffer's, one below and one above *)
Slots == -1..BufferSize

TouchDowns ==
    { [type |-> "TOUCH_DOWN", slot |-> s, x |-> p[1], y |-> p[2]] :
          s \in Slots, p \in Points }

OtherEvent == [type |-> "OTHER", slot |-> 0, x |-> 0, y |-> 0]

NoEvent == [type |-> "NONE", slot |-> 0, x |-> 0, y |-> 0]

Events == TouchDowns \cup {OtherEvent}

----------------------------------------------------------------------------
(* Initial state: main() entered, statics zero-initialised *)

InitStatics ==
    /\ optind = 1
    /\ commands = <<>>
    /\ touch_buffer = [k \in 0..(BufferSize - 1) |-> NUL]
    /\ stop = 0
    /\ pc = "getopt"
    /\ in_loop = FALSE
    /\ pending = 0
    /\ ev = NoEvent
    /\ cursor = 0
    /\ ran = <<>>
    /\ printed = <<>>
    /\ poll_rc = 0
    /\ newlines = 0
    /\ status = -1
    /\ repeated = FALSE

Init ==
    /\ argv \in Argvs
    /\ InitStatics

(* touch_event entered for a contact-down at any position of the square, *)
(* with no binding configured                                            *)
ZoneInit ==
    /\ argv = <<>>
    /\ optind = 1
    /\ commands = <<>>
    /\ touch_buffer = [k \in 0..(BufferSize - 1) |-> NUL]
    /\ stop = 0
    /\ pc = "touch_event"
    /\ in_loop = FALSE
    /\ pending = 0
    /\ \E s \in 0..(BufferSize - 1), x \in 0..(screen_width - 1),
          y \in 0..(screen_height - 1) :
          ev = [type |-> "TOUCH_DOWN", slot |-> s, x |-> x, y |-> y]
    /\ cursor = 0
    /\ ran = <<>>
    /\ printed = <<>>
    /\ poll_rc = 0
    /\ newlines = 0
    /\ status = -1
    /\ repeated = FALSE

(* One --cmd option whose argument is any string of up to MaxArgLen characters *)
ParseInit ==
    /\ \E n \in 0..MaxArgLen : \E s \in [1..n -> Chars] : argv = <<s>>
    /\ InitStatics

----------------------------------------------------------------------------
(* main *)

(* getopt_long returns OPT_CMD *)
OptCmd ==
    /\ pc = "getopt"
    /\ optind <= Len(argv)
    /\ LET optarg == argv[optind]
           r == ScanCmd(optarg, 0)
       IN IF ~r.splitter_found
          THEN /\ pc' = "exited"
               /\ status' = EXIT_INVALID_USAGE
               /\ UNCHANGED <<commands, optind>>
          ELSE /\ commands' = PushCommand(commands,
                                 [event |-> CmdEvent(optarg),
                                  action |-> CmdAction(optarg),
                                  decl |-> optind])
               /\ optind' = optind + 1
               /\ UNCHANGED <<pc, status>>
    /\ UNCHANGED <<repeated, argv, touch_buffer, stop, in_loop, pending, ev, cursor, ran,
                   printed, poll_rc, newlines>>

(* getopt_long returns -1; the signal handler is installed *)
OptEnd ==
    /\ pc = "getopt"
    /\ optind > Len(argv)
    /\ pc' = "open_backend"
    /\ UNCHANGED <<repeated, argv, optind, commands, touch_buffer, stop, in_loop, pending,
                   ev, cursor, ran, printed, poll_rc, newlines, status>>

(* tools_open_backend succeeds: mainloop starts with the startup drain *)
OpenBackend ==
    /\ pc = "open_backend"
    /\ pc' = "drain"
    /\ in_loop' = FALSE
    /\ UNCHANGED <<repeated, argv, optind, commands, touch_buffer, stop, pending, ev,
                   cursor, ran, printed, poll_rc, newlines, status>>

(* tools_open_backend returns NULL *)
OpenBackendFails ==
    /\ pc = "open_backend"
    /\ pc' = "exited"
    /\ status' = EXIT_FAILURE
    /\ UNCHANGED <<repeated, argv, optind, commands, touch_buffer, stop, in_loop, pending,
                   ev, cursor, ran, printed, poll_rc, newlines>>

----------------------------------------------------------------------------
(* handle_and_manage_events *)

(* Mutant of IsTouchDown: every event type is handed to touch_event *)
IsTouchDownAny(e) == TRUE

(* libinput_event_get_type(ev) == LIBINPUT_EVENT_TOUCH_DOWN *)
IsTouchDown(e) == e.type = "TOUCH_DOWN"

(* Mutant of HandleEvent: dispatch is edge-triggered, a contact-down that *)
(* leaves the gesture buffer as it was is not matched again              *)
HandleEventOneShot ==
    /\ pc = "drain"
    /\ pending > 0
    /\ \E e \in Events :
        /\ ev' = e
        /\ repeated' = (e = ev /\ ran # <<>>)
        /\ pending' = pending - 1
        /\ printed' = <<>>
        /\ IF IsTouchDown(e)
           THEN LET buf == touch_event(touch_buffer, e.slot, e.x, e.y)
                    m == IF InRange(e.slot) /\ MatchAttempted(e.slot)
                            /\ buf # touch_buffer
                         THEN NextMatch(commands, EventString(buf, e.slot), 1)
                         ELSE 0
                IN /\ touch_buffer' = buf
                   /\ cursor' = m
                   /\ ran' = IF m = 0 THEN <<>> ELSE <<commands[m]>>
                   /\ pc' = IF m = 0 THEN "drain" ELSE "system"
           ELSE /\ ran' = <<>>
                /\ cursor' = 0
                /\ UNCHANGED <<touch_buffer, pc>>
    /\ UNCHANGED <<argv, optind, commands, stop, in_loop, poll_rc, newlines, status>>

(* libinput_get_event returns an event: touch_event for a TOUCH_DOWN, up to *)
(* the first system() call of event_to_command.                            *)
HandleEvent ==
    /\ pc = "drain"
    /\ pending > 0
    /\ \E e \in Events :
        /\ ev' = e
        /\ repeated' = (e = ev /\ ran # <<>>)
        /\ pending' = pending - 1
        /\ printed' = <<>>
        /\ IF IsTouchDown(e)
           THEN LET buf == touch_event(touch_buffer, e.slot, e.x, e.y)
                    m == IF InRange(e.slot) /\ MatchAttempted(e.slot)
                         THEN NextMatch(commands, EventString(buf, e.slot), 1)
                         ELSE 0
                IN /\ touch_buffer' = buf
                   /\ cursor' = m
                   /\ ran' = IF m = 0 THEN <<>> ELSE <<commands[m]>>
                   /\ pc' = IF m = 0 THEN "drain" ELSE "system"
           ELSE /\ ran' = <<>>
                /\ cursor' = 0
                /\ UNCHANGED <<touch_buffer, pc>>
    /\ UNCHANGED <<argv, optind, commands, stop, in_loop, poll_rc, newlines, status>>

(* Mutant of SystemReturns: a binding is unlinked once its command has run *)
SystemReturnsUnlinks ==
    /\ pc = "system"
    /\ printed' = Append(printed, commands[cursor])
    /\ LET rest == SubSeq(commands, 1, cursor - 1)
                      \o SubSeq(commands, cursor + 1, Len(commands))
           m == NextMatch(rest, EventString(touch_buffer, ev.slot), cursor)
       IN /\ commands' = rest
          /\ cursor' = m
          /\ ran' = IF m = 0 THEN ran ELSE Append(ran, rest[m])
          /\ pc' = IF m = 0 THEN "drain" ELSE "system"
    /\ UNCHANGED <<repeated, argv, optind, touch_buffer, stop, in_loop, pending,
                   ev, poll_rc, newlines, status>>

(* Mutant of SystemReturns: a match ends the gesture, the entries above *)
(* slot 0 are cleared once the command has run                          *)
SystemReturnsClears ==
    /\ pc = "system"
    /\ printed' = Append(printed, commands[cursor])
    /\ LET m == AfterSystem(commands, EventString(touch_buffer, ev.slot), cursor)
       IN /\ cursor' = m
          /\ ran' = IF m = 0 THEN ran ELSE Append(ran, commands[m])
          /\ pc' = IF m = 0 THEN "drain" ELSE "system"
          /\ touch_buffer' = IF m = 0
                             THEN [k \in DOMAIN touch_buffer |->
                                      IF k = 0 THEN touch_buffer[k] ELSE NUL]
                             ELSE touch_buffer
    /\ UNCHANGED <<repeated, argv, optind, commands, stop, in_loop, pending,
                   ev, poll_rc, newlines, status>>

(* system() returns: the record is printed and the scan goes on *)
SystemReturns ==
    /\ pc = "system"
    /\ printed' = Append(printed, commands[cursor])
    /\ LET m == AfterSystem(commands, EventString(touch_buffer, ev.slot), cursor)
       IN /\ cursor' = m
          /\ ran' = IF m = 0 THEN ran ELSE Append(ran, commands[m])
          /\ pc' = IF m = 0 THEN "drain" ELSE "system"
    /\ UNCHANGED <<repeated, argv, optind, commands, touch_buffer, stop, in_loop, pending,
                   ev, poll_rc, newlines, status>>

(* Mutant of DrainReturns: the drain loop also ends when stop is set *)
DrainReturnsOnStop ==
    /\ pc = "drain"
    /\ pending = 0 \/ stop = 1
    /\ pc' = IF in_loop THEN "usleep" ELSE "poll_call"
    /\ UNCHANGED <<repeated, argv, optind, commands, touch_buffer, stop, in_loop, pending,
                   ev, cursor, ran, printed, poll_rc, newlines, status>>

(* libinput_get_event returns NULL: the drain returns to mainloop *)
DrainReturns ==
    /\ pc = "drain"
    /\ pending = 0
    /\ pc' = IF in_loop THEN "usleep" ELSE "poll_call"
    /\ UNCHANGED <<repeated, argv, optind, commands, touch_buffer, stop, in_loop, pending,
                   ev, cursor, ran, printed, poll_rc, newlines, status>>

----------------------------------------------------------------------------
(* mainloop *)

(* Mutant of PollOk: a failed poll() is taken for a successful one *)
PollOkAlways(rc) == rc >= -1

PollOk(rc) == rc > -1

(* usleep is over; the loop condition reads stop *)
CheckStop ==
    /\ pc = "usleep"
    /\ pc' = IF stop = 0 THEN "poll_call" ELSE "print"
    /\ UNCHANGED <<repeated, argv, optind, commands, touch_buffer, stop, in_loop, pending,
                   ev, cursor, ran, printed, poll_rc, newlines, status>>

(* poll(&fds, 1, -1) is entered *)
PollEnter ==
    /\ pc = "poll_call"
    /\ pc' = "poll_wait"
    /\ UNCHANGED <<repeated, argv, optind, commands, touch_buffer, stop, in_loop, pending,
                   ev, cursor, ran, printed, poll_rc, newlines, status>>

(* the condition on poll's result, at line 116 and at line 124: the do-loop *)
(* body (a drain) when it holds, printf("\n") when it does not              *)
AfterPoll(rc) == IF PollOk(rc) THEN "drain" ELSE "print"

(* the fd is readable: poll returns 1 *)
PollReady ==
    /\ pc = "poll_wait"
    /\ pending > 0
    /\ poll_rc' = 1
    /\ pc' = AfterPoll(1)
    /\ in_loop' = TRUE
    /\ UNCHANGED <<repeated, argv, optind, commands, touch_buffer, stop, pending,
                   ev, cursor, ran, printed, newlines, status>>

(* printf("\n"); libinput_unref; return EXIT_SUCCESS *)
PrintNewline ==
    /\ pc = "print"
    /\ newlines' = newlines + 1
    /\ pc' = "exited"
    /\ status' = EXIT_SUCCESS
    /\ UNCHANGED <<repeated, argv, optind, commands, touch_buffer, stop, in_loop, pending,
                   ev, cursor, ran, printed, poll_rc>>

----------------------------------------------------------------------------
(* The environment *)

Running == pc \notin {"getopt", "exited"}

(* SIGINT: sighandler sets stop; a poll() blocked with nothing to read       *)
(* returns -1 (EINTR).  While system() waits for the command SIGINT is       *)
(* ignored in the caller, so the handler does not run at pc = "system".      *)
sighandler ==
    /\ Running
    /\ pc # "system"
    /\ stop' = 1
    /\ IF pc = "poll_wait" /\ pending = 0
       THEN poll_rc' = -1 /\ pc' = AfterPoll(-1) /\ in_loop' = TRUE
       ELSE UNCHANGED <<poll_rc, pc, in_loop>>
    /\ UNCHANGED <<repeated, argv, optind, commands, touch_buffer, pending, ev,
                   cursor, ran, printed, newlines, status>>

(* the device produces an event *)
InputArrives ==
    /\ Running
    /\ pc # "open_backend"
    /\ pending < MaxPending
    /\ pending' = pending + 1
    /\ UNCHANGED <<repeated, argv, optind, commands, touch_buffer, stop, pc, in_loop, ev,
                   cursor, ran, printed, poll_rc, newlines, status>>

----------------------------------------------------------------------------
(* Specifications *)

(* Steps of the main thread that need nothing from outside the process *)
ProgramStep ==
    \/ OptCmd
    \/ OptEnd
    \/ OpenBackend
    \/ HandleEvent
    \/ DrainReturns
    \/ CheckStop
    \/ PollEnter
    \/ PollReady
    \/ PrintNewline

Next ==
    \/ OptCmd
    \/ OptEnd
    \/ OpenBackend
    \/ OpenBackendFails
    \/ HandleEvent
    \/ SystemReturns
    \/ DrainReturns
    \/ CheckStop
    \/ PollEnter
    \/ PollReady
    \/ PrintNewline
    \/ sighandler
    \/ InputArrives

Spec == Init /\ [][Next]_vars

(* The main thread keeps running; a command may never terminate *)
FairSpec == Spec /\ WF_vars(ProgramStep)

(* The main thread keeps running and every command terminates *)
LiveSpec == Spec /\ WF_vars(ProgramStep) /\ WF_vars(SystemReturns)

(* touch_event for the event ev: the zone is recorded; with an empty list *)
(* event_to_command finds nothing to run                                 *)
TouchEventRecords ==
    /\ pc = "touch_event"
    /\ touch_buffer' = touch_event(touch_buffer, ev.slot, ev.x, ev.y)
    /\ pc' = "drain"
    /\ UNCHANGED <<repeated, argv, optind, commands, stop, in_loop, pending, ev, cursor,
                   ran, printed, poll_rc, newlines, status>>

ZoneNext == TouchEventRecords

ZoneSpec == ZoneInit /\ [][ZoneNext]_vars

ParseNext ==
    \/ OptCmd
    \/ OptEnd

ParseSpec == ParseInit /\ [][ParseNext]_vars

----------------------------------------------------------------------------
(* Notions the properties are stated with *)

(* The gesture of the specification: the buffer entries of slots 0..nb *)
Gesture(buf, nb) == [k \in 1..(nb + 1) |-> buf[k - 1]]

(* The last event fetched is a contact-down on an in-range slot >= 1 *)
MatchingEvent == ev.type = "TOUCH_DOWN" /\ ev.slot >= 1 /\ ev.slot < BufferSize

(* The step fetches an event: only HandleEvent takes one from the fd *)
Fetches == pending' = pending - 1

(* A configuration entry of the documented form: 2 to 5 direction letters *)
(* and then the separator                                                 *)
WellFormed(s) ==
    \E n \in 2..5 :
        /\ Len(s) >= n + 1
        /\ s[n + 1] = "-"
        /\ \A k \in 1..n : s[k] \in Dir

----------------------------------------------------------------------------
(* C1: for a contact-down on an in-range slot s >= 1 at most one command  *)
(* is executed, that of the first binding in table order whose pattern    *)
(* equals the gesture; further equal bindings are not executed.           *)
C1_AtMostOneCommand ==
    MatchingEvent =>
        /\ Len(ran) <= 1
        /\ LET m == NextMatch(commands, Gesture(touch_buffer, ev.slot), 1)
           IN (ran # <<>> /\ m # 0) => ran[1] = commands[m]

(* C2: of two bindings with identical patterns declared A then B, the     *)
(* first command executed for a matching contact-down is B's: no binding  *)
(* of the same pattern was declared after the one executed first.         *)
C2_LastDeclaredFirst ==
    ran # <<>> =>
        \A k \in 1..Len(commands) :
            commands[k].event = ran[1].event => commands[k].decl <= ran[1].decl

(* C2 witness: a command ran while an earlier-declared binding has the *)
(* same pattern                                                        *)
C2_Witness ==
    /\ ran # <<>>
    /\ \E k \in 1..Len(commands) :
          commands[k].event = ran[1].event /\ commands[k].decl < ran[1].decl

(* C3: a binding's command is executed for a contact-down on slot s >= 1  *)
(* only if its pattern has length s+1 and equals the buffer entries of    *)
(* slots 0..s, whatever the sequence of contact-downs.                    *)
C3_ExactMatch ==
    MatchingEvent =>
        \A i \in 1..Len(ran) : ran[i].event = Gesture(touch_buffer, ev.slot)

(* C4: a contact-down on slot 0 executes no command and emits no record; *)
(* it only overwrites buffer entry 0.                                    *)
C4_SlotZeroOnlyRecords ==
    [][(Fetches /\ ev'.type = "TOUCH_DOWN" /\ ev'.slot = 0) =>
          /\ ran' = <<>>
          /\ printed' = <<>>
          /\ pc' = "drain"
          /\ touch_buffer'[0] = coord_to_zone(ev'.x, ev'.y)
          /\ \A k \in 1..(BufferSize - 1) : touch_buffer'[k] = touch_buffer[k]]_vars

(* C4 witness: a contact-down on slot 0 was handled while entries 0 and 1 *)
(* of the buffer spell the pattern of a binding                           *)
C4_Witness ==
    /\ ev.type = "TOUCH_DOWN"
    /\ ev.slot = 0
    /\ pc = "drain"
    /\ \E k \in 1..Len(commands) : commands[k].event = Gesture(touch_buffer, 1)

(* C5: a contact-down whose slot is outside 0..4 is dropped: the buffer is *)
(* unchanged, no command is executed, the process does not exit and the    *)
(* drain goes on to the next event.                                        *)
C5_OutOfRangeDropped ==
    [][(Fetches /\ ev'.type = "TOUCH_DOWN" /\ (ev'.slot < 0 \/ ev'.slot >= 5)) =>
          /\ touch_buffer' = touch_buffer
          /\ ran' = <<>>
          /\ printed' = <<>>
          /\ pc' = "drain"
          /\ status' = status]_vars

(* C5 witness: an out-of-range contact-down was handled with a bound *)
(* gesture in the buffer                                              *)
C5_Witness ==
    /\ ev.type = "TOUCH_DOWN"
    /\ ev.slot >= 5
    /\ pc = "drain"
    /\ \E k \in 1..Len(commands) : commands[k].event = Gesture(touch_buffer, 1)

(* C6: an entry is accepted iff it starts with 2 to 5 direction letters   *)
(* followed by '-'; every stored pattern has 2 to 5 letters, all of them  *)
(* direction letters.                                                     *)
C6_AcceptedIffWellFormed ==
    /\ (optind > 1 \/ pc = "exited") =>
          /\ (commands # <<>>) <=> WellFormed(argv[1])
          /\ (pc = "exited") <=> ~WellFormed(argv[1])
    /\ \A k \in 1..Len(commands) :
          /\ Len(commands[k].event) \in 2..5
          /\ \A j \in 1..Len(commands[k].event) : commands[k].event[j] \in Dir

(* C6 witness: an entry of five letters and a separator was accepted *)
C6_Witness ==
    /\ commands # <<>>
    /\ Len(commands[1].event) = 5
    /\ Len(argv[1]) = MaxArgLen

(* C7: when some entry is rejected the process exits with the usage       *)
(* status, which is neither zero nor the normal one, before the event     *)
(* loop: no event is fetched and no command executed.                     *)
C7_RejectionIsFatal ==
    (\E k \in 1..Len(argv) : ~WellFormed(argv[k])) =>
        /\ pc \in {"getopt", "exited"}
        /\ ev = NoEvent
        /\ ran = <<>>
        /\ pc = "exited" =>
              /\ status = EXIT_INVALID_USAGE
              /\ status # 0
              /\ status # EXIT_SUCCESS
              /\ \E k \in 1..Len(argv) : ~WellFormed(argv[k]) /\ Len(commands) = k - 1

(* C7 witness: the process exited on a bad entry after accepting a valid one *)
C7_Witness ==
    /\ pc = "exited"
    /\ status = EXIT_INVALID_USAGE
    /\ commands # <<>>

(* C8: once the termination signal has been delivered after the event     *)
(* loop started, the loop eventually exits and the process terminates      *)
(* without any further input event: from a state where stop is set and no  *)
(* event waits on the fd, the process exits unless a new event arrives.    *)
(* (LiveSpec: the main thread keeps running and every command terminates.) *)
C8_SignalEndsLoop == (stop = 1 /\ pending = 0) ~> (pc = "exited" \/ pending > 0)

(* C9: a signal that interrupts the blocking wait makes the loop exit    *)
(* with no further drain; the process prints one newline and exits zero. *)
C9_InterruptedWaitExits ==
    poll_rc = -1 =>
        /\ pc \in {"print", "exited"}
        /\ pc = "print" => newlines = 0
        /\ pc = "exited" => (newlines = 1 /\ status = EXIT_SUCCESS)

(* C9 witness: the wait that was interrupted came after a drain that ran a *)
(* command, and the process has exited                                     *)
C9_Witness ==
    /\ poll_rc = -1
    /\ pc = "exited"
    /\ ran # <<>>

(* C10: command execution is fire-and-forget: the dispatcher does not wait *)
(* for the command, so from every call of system() the main thread moves   *)
(* on (to the next binding, the next event, the next wait) whether or not  *)
(* the command ever finishes.  (FairSpec: the main thread keeps running, a *)
(* command may run forever.)                                               *)
C10_FireAndForget == (pc = "system") ~> (pc # "system")

(* C11: a match does not end gesture accumulation: when slots 0..s have   *)
(* all been recorded, a contact-down on slot s >= 1 runs the binding      *)
(* whose pattern equals the zones of slots 0..s, whatever ran before, and *)
(* executing a command leaves the gesture buffer as it was.               *)
C11_MatchKeepsAccumulating ==
    /\ [](( /\ MatchingEvent
            /\ \A k \in 0..ev.slot : touch_buffer[k] # NUL ) =>
              LET m == NextMatch(commands, Gesture(touch_buffer, ev.slot), 1)
              IN m # 0 => (ran # <<>> /\ ran[1] = commands[m]))
    /\ [][pc = "system" => touch_buffer' = touch_buffer]_vars

(* C11 witness: the three-letter binding ran on slot 2 while the buffer *)
(* still spells, in slots 0..1, the two-letter binding                  *)
C11_Witness ==
    /\ ev.type = "TOUCH_DOWN"
    /\ ev.slot = 2
    /\ ran # <<>>
    /\ Len(ran[1].event) = 3
    /\ \E k \in 1..Len(commands) : commands[k].event = Gesture(touch_buffer, 1)

(* C12: for every (x, y) of the square the classifier returns exactly one *)
(* of 'h' (up), 'g' (left), 'd' (right), 'b' (down), by d1 = (y < 100-x)  *)
(* and d2 = (y < x): d1&d2 -> up, d1&~d2 -> left, ~d1&d2 -> right,        *)
(* ~d1&~d2 -> down; (0,0) is left and (99,99) is down.                    *)
C12_ZoneTable ==
    pc = "drain" =>
        LET z == touch_buffer[ev.slot]
            d1 == ev.y < 100 - ev.x
            d2 == ev.y < ev.x
        IN /\ z \in {"h", "g", "d", "b"}
           /\ (d1 /\ d2) <=> z = "h"
           /\ (d1 /\ ~d2) <=> z = "g"
           /\ (~d1 /\ d2) <=> z = "d"
           /\ (~d1 /\ ~d2) <=> z = "b"
           /\ (ev.x = 0 /\ ev.y = 0) => z = "g"
           /\ (ev.x = 99 /\ ev.y = 99) => z = "b"

(* C12 witness: a point of the main diagonal, above the anti-diagonal, *)
(* was classified left                                                 *)
C12_Witness ==
    /\ pc = "drain"
    /\ ev.x = ev.y
    /\ ev.x > 0
    /\ touch_buffer[ev.slot] = "g"

(* C13: entry i of the gesture buffer always holds the zone of the most   *)
(* recent in-range contact-down of slot i: such a contact-down on slot s  *)
(* sets entry s to its zone and leaves the other entries, and no other    *)
(* step changes the buffer.                                               *)
C13_BufferHoldsLastZone ==
    [][IF Fetches /\ ev'.type = "TOUCH_DOWN" /\ ev'.slot \in 0..4
       THEN touch_buffer' =
                [k \in 0..4 |-> IF k = ev'.slot
                                THEN coord_to_zone(ev'.x, ev'.y)
                                ELSE touch_buffer[k]]
       ELSE touch_buffer' = touch_buffer]_vars

(* C13 witness: slot 1 was recorded between two recorded slots that hold *)
(* another zone                                                          *)
C13_Witness ==
    /\ ev.type = "TOUCH_DOWN"
    /\ ev.slot = 1
    /\ touch_buffer[1] = coord_to_zone(ev.x, ev.y)
    /\ touch_buffer[0] \notin {NUL, touch_buffer[1]}
    /\ touch_buffer[2] \notin {NUL, touch_buffer[1]}

(* C14: the binding table is immutable once the event loop has started:   *)
(* whatever events, matches, command executions and signals occur, it is  *)
(* the table the option loop built, one binding per entry, last declared  *)
(* first.                                                                 *)
C14_TableImmutable ==
    (pc \notin {"getopt", "open_backend"} /\ status # EXIT_INVALID_USAGE) =>
        commands = [k \in 1..Len(argv) |->
                      LET d == Len(argv) + 1 - k
                      IN [event |-> CmdEvent(argv[d]),
                          action |-> CmdAction(argv[d]),
                          decl |-> d]]

(* C14 witness: the loop has run two commands for one event, a signal has *)
(* stopped it and the process has exited                                  *)
C14_Witness ==
    /\ pc = "exited"
    /\ status = EXIT_SUCCESS
    /\ stop = 1
    /\ Len(ran) = 2
    /\ Len(commands) = 2

(* C15: for an accepted entry the stored pattern is exactly the letters   *)
(* before the first separator and the stored command exactly the text     *)
(* after it, verbatim: nothing added, trimmed or dropped, and an empty    *)
(* remainder gives an empty command.                                      *)
C15_CommandVerbatim ==
    commands # <<>> =>
        LET c == commands[1]
            a == argv[1]
            n == Len(c.event)
        IN /\ n < Len(a)
           /\ \A k \in 1..n : a[k] # "-" /\ c.event[k] = a[k]
           /\ a[n + 1] = "-"
           /\ Len(c.action) = Len(a) - n - 1
           /\ \A k \in 1..Len(c.action) : c.action[k] = a[n + 1 + k]

(* C15 witness: the stored command starts and ends with a separator *)
C15_Witness ==
    /\ commands # <<>>
    /\ Len(commands[1].action) >= 3
    /\ commands[1].action[1] = "-"
    /\ commands[1].action[Len(commands[1].action)] = "-"

(* C16: whenever matching is attempted for a slot s >= 1, every slot 0..s *)
(* has already been recorded, so the gesture holds no never-set entry,    *)
(* for any stream of in-range contact-downs.                              *)
C16_SlotsRecordedBeforeMatch ==
    MatchingEvent => \A k \in 0..ev.slot : touch_buffer[k] # NUL

C18_NoDrainAfterStop ==
    [][(stop = 1 /\ pc \in {"usleep", "poll_call", "poll_wait"}) =>
           pc' # "drain"]_vars

(* C19: only contact-down events drive the dispatcher: an event of any   *)
(* other type is consumed without changing the gesture buffer, without   *)
(* running a command or printing a record, and the drain goes on         *)
C19_OnlyTouchDownDispatches ==
    [][(Fetches /\ ev'.type # "TOUCH_DOWN") =>
           /\ touch_buffer' = touch_buffer
           /\ ran' = <<>>
           /\ printed' = <<>>
           /\ pc' = "drain"]_vars

(* C19 witness: an event of another type was consumed while the buffer *)
(* spelled the pattern of a declared binding                           *)
C19_Witness ==
    /\ ev.type = "OTHER"
    /\ pc = "drain"
    /\ ran = <<>>
    /\ \E k \in 1..Len(commands) :
           commands[k].event = Gesture(touch_buffer, 1)

(* C20: every command execution is accompanied by exactly one match     *)
(* record: whenever the executions of the current event outnumber its   *)
(* records, the records catch up, and name the same bindings            *)
C20_RecordPerExecution ==
    (Len(ran) > Len(printed)) ~> (printed = ran)

(* C21: buffer entries above slot 0 are never cleared: a contact-down on *)
(* slot 0 and the execution of a matched command leave entries 1..4 as   *)
(* they were, so a contact-down on slot s >= 2 is matched against the    *)
(* symbols that slots 0..s-1 hold from whichever earlier contact-downs   *)
(* recorded them, followed by its own zone.                              *)
C21_UpperEntriesKept ==
    [][/\ (Fetches /\ ev'.type = "TOUCH_DOWN" /\ ev'.slot = 0) =>
              \A k \in 1..(BufferSize - 1) : touch_buffer'[k] = touch_buffer[k]
       /\ pc = "system" =>
              \A k \in 1..(BufferSize - 1) : touch_buffer'[k] = touch_buffer[k]
       /\ ( /\ Fetches
            /\ ev'.type = "TOUCH_DOWN"
            /\ ev'.slot \in 2..(BufferSize - 1)
            /\ \A k \in 0..(ev'.slot - 1) : touch_buffer[k] # NUL ) =>
              LET g == [k \in 1..(ev'.slot + 1) |->
                           IF k = ev'.slot + 1
                           THEN coord_to_zone(ev'.x, ev'.y)
                           ELSE touch_buffer[k - 1]]
                  m == NextMatch(commands, g, 1)
              IN IF m = 0 THEN ran' = <<>> ELSE ran'[1] = commands[m]]_vars

(* C21 witness: the last event is a contact-down on slot 0, and entries *)
(* 1 and 2, recorded by contact-downs before it, still hold their zones *)
(* and spell a three-letter binding with the new entry 0                *)
C21_Witness ==
    /\ ev.type = "TOUCH_DOWN"
    /\ ev.slot = 0
    /\ pc = "drain"
    /\ touch_buffer[1] # NUL
    /\ touch_buffer[2] # NUL
    /\ \E k \in 1..Len(commands) :
           commands[k].event = Gesture(touch_buffer, 2)

(* C22: dispatch is not one-shot: every contact-down on slot s >= 1 whose *)
(* resulting gesture (slots 0..s all recorded) equals a binding's pattern *)
(* starts that binding's command, and a contact-down identical to the     *)
(* previous one, which ran a command, leaves the buffer as it was and     *)
(* starts the same command again; within one event no binding is run      *)
(* twice.                                                                 *)
C22_DispatchRepeats ==
    /\ [](\A i, j \in 1..Len(ran) : i # j => ran[i] # ran[j])
    /\ [][/\ ( /\ Fetches
               /\ ev'.type = "TOUCH_DOWN"
               /\ ev'.slot \in 1..(BufferSize - 1)
               /\ \A k \in 0..ev'.slot : touch_buffer'[k] # NUL
               /\ NextMatch(commands, Gesture(touch_buffer', ev'.slot), 1) # 0 ) =>
                 /\ pc' = "system"
                 /\ ran' = <<commands[NextMatch(commands,
                                 Gesture(touch_buffer', ev'.slot), 1)]>>
          /\ (Fetches /\ ev' = ev /\ ran # <<>>) =>
                 /\ touch_buffer' = touch_buffer
                 /\ pc' = "system"
                 /\ ran' = <<ran[1]>>]_vars

(* C22 witness: the contact-down being dispatched is identical to the    *)
(* one before it, a command ran for that one, and the same binding's     *)
(* command is running again                                              *)
C22_Witness ==
    /\ repeated
    /\ pc = "system"
    /\ ran # <<>>
    /\ ran[1].event = Gesture(touch_buffer, ev.slot)

(* C23: as long as slot 0 has never received a contact-down (entry 0 is   *)
(* still the zero initialiser) no command is executed and no record is    *)
(* printed, whatever contact-downs arrive on slots >= 1 and whatever      *)
(* bindings were accepted.                                                *)
C23_NothingRunsBeforeSlotZero ==
    touch_buffer[0] = NUL =>
        /\ ran = <<>>
        /\ printed = <<>>
        /\ pc # "system"

(* C23 witness: slot 0 never touched, contact-downs on slots 1 and 2 have *)
(* recorded zones that spell a declared pattern, and nothing ran          *)
C23_Witness ==
    /\ touch_buffer[0] = NUL
    /\ MatchingEvent
    /\ ev.slot = 2
    /\ pc = "drain"
    /\ \E k \in 1..Len(commands) :
           commands[k].event = <<touch_buffer[1], touch_buffer[2]>>

====
